---- MODULE Spec2Model ----
(***************************************************************************)
(* The article relationship resolver of the blog: the wiki-link resolver   *)
(* (initializeLinkResolver, resolveWikiLink, getAllArticleTitles), the     *)
(* relevance ranker (findRelatedArticles) and the learning path builder    *)
(* (getLearningPath), over the 'blog' content collection.                  *)
(*                                                                         *)
(* A JavaScript string is a sequence of one-character strings, so that     *)
(* toLowerCase, includes, replace and trim are computed character by       *)
(* character.  An optional value (undefined / null) is the empty sequence  *)
(* <<>>, a present value v is the one-element sequence <<v>>.              *)
(***************************************************************************)
EXTENDS Integers, Sequences, FiniteSets, TLC

VARIABLES allPosts, articleSlugs, call, result, pending

vars == <<allPosts, articleSlugs, call, result, pending>>

---------------------------------------------------------------------------
(* Optional values *)

None == <<>>

Some(v) == <<v>>

(* v || d  for an optional v that is never falsy when present *)
OrElse(v, d) == IF v = None THEN d ELSE v[1]

---------------------------------------------------------------------------
(* Strings *)

WhiteSpace == {" ", "\t", "\n"}

LowerMap ==
  ("A" :> "a") @@ ("B" :> "b") @@ ("C" :> "c") @@ ("D" :> "d") @@ ("E" :> "e") @@
  ("F" :> "f") @@ ("G" :> "g") @@ ("H" :> "h") @@ ("I" :> "i") @@ ("J" :> "j") @@
  ("K" :> "k") @@ ("L" :> "l") @@ ("M" :> "m") @@ ("N" :> "n") @@ ("O" :> "o") @@
  ("P" :> "p") @@ ("Q" :> "q") @@ ("R" :> "r") @@ ("S" :> "s") @@ ("T" :> "t") @@
  ("U" :> "u") @@ ("V" :> "v") @@ ("W" :> "w") @@ ("X" :> "x") @@ ("Y" :> "y") @@
  ("Z" :> "z")

toLowerCaseChar(c) == IF c \in DOMAIN LowerMap THEN LowerMap[c] ELSE c

(* String.prototype.toLowerCase *)
toLowerCase(s) == [i \in 1..Len(s) |-> toLowerCaseChar(s[i])]

(* String.prototype.includes *)
includes(s, sub) ==
  \E i \in 0..(Len(s) - Len(sub)) : SubSeq(s, i + 1, i + Len(sub)) = sub

(* Array.prototype.includes / Array.prototype.some *)
arrayIncludes(arr, v) == \E i \in 1..Len(arr) : arr[i] = v

(* first position at or after i that holds no whitespace (Len(s)+1 if none): *)
(* the end of a greedy \s+ or \s* starting at i                              *)
RECURSIVE SkipWhiteSpace(_, _)
SkipWhiteSpace(s, i) ==
  IF i <= Len(s) /\ s[i] \in WhiteSpace THEN SkipWhiteSpace(s, i + 1) ELSE i

(* first position at or after i that holds whitespace, 0 if none: the start *)
(* of the next match of \s+                                                 *)
NextWhiteSpace(s, i) ==
  LET starts == {j \in i..Len(s) : s[j] \in WhiteSpace}
  IN IF starts = {} THEN 0 ELSE CHOOSE j \in starts : \A k \in starts : j <= k

(* s.replace(/\s+/g, '-') from position i: the text up to the next match is *)
(* copied, the match becomes a hyphen and the scan resumes after the match   *)
RECURSIVE HyphenateFrom(_, _)
HyphenateFrom(s, i) ==
  LET w == NextWhiteSpace(s, i)
  IN IF w = 0 THEN SubSeq(s, i, Len(s))
     ELSE SubSeq(s, i, w - 1) \o <<"-">> \o HyphenateFrom(s, SkipWhiteSpace(s, w))

replaceWhiteSpaceRuns(s) == HyphenateFrom(s, 1)

(* the word w stands at position i of s, in any letter case *)
WordAt(s, i, w) ==
  /\ i + Len(w) - 1 <= Len(s)
  /\ toLowerCase(SubSeq(s, i, i + Len(w) - 1)) = w

LeadingArticles == << <<"a">>, <<"a", "n">>, <<"t", "h", "e">> >>

ConnectorWords == << <<"f", "o", "r">>, <<"i", "n">>, <<"w", "i", "t", "h">>, <<"u", "s", "i", "n", "g">>, <<"a", "n", "d">>, <<"o", "r">> >>

(* end (exclusive) of the match of /(w1|w2|...)\s+/i at position i, 0 if none; *)
(* the alternatives are tried in order                                         *)
WordThenSpaceEnd(s, i, words) ==
  LET hits == {k \in 1..Len(words) :
                 /\ WordAt(s, i, words[k])
                 /\ i + Len(words[k]) <= Len(s)
                 /\ s[i + Len(words[k])] \in WhiteSpace}
  IN IF hits = {} THEN 0
     ELSE LET k == CHOOSE h \in hits : \A g \in hits : h <= g
          IN SkipWhiteSpace(s, i + Len(words[k]))

(* s.replace(/^(a|an|the)\s+/i, '') *)
stripLeadingArticle(s) ==
  LET e == WordThenSpaceEnd(s, 1, LeadingArticles)
  IN IF e = 0 THEN s ELSE SubSeq(s, e, Len(s))

(* end (exclusive) of the match of /\s+(for|in|with|using|and|or)\s+/i at i, 0 if none *)
ConnectorMatchEnd(s, i) ==
  IF s[i] \notin WhiteSpace THEN 0
  ELSE WordThenSpaceEnd(s, SkipWhiteSpace(s, i), ConnectorWords)

(* first position at or after i where the connector pattern matches, 0 if none *)
NextConnectorMatch(s, i) ==
  LET starts == {j \in i..Len(s) : ConnectorMatchEnd(s, j) > 0}
  IN IF starts = {} THEN 0 ELSE CHOOSE j \in starts : \A k \in starts : j <= k

(* s.replace(/\s+(for|in|with|using|and|or)\s+/gi, ' ') from position i: the *)
(* scan resumes after the end of each match                                  *)
RECURSIVE CollapseFrom(_, _)
CollapseFrom(s, i) ==
  LET m == NextConnectorMatch(s, i)
  IN IF m = 0 THEN SubSeq(s, i, Len(s))
     ELSE SubSeq(s, i, m - 1) \o <<" ">> \o CollapseFrom(s, ConnectorMatchEnd(s, m))

collapseConnectors(s) == CollapseFrom(s, 1)

RECURSIVE TrimEnd(_)
TrimEnd(s) ==
  IF Len(s) > 0 /\ s[Len(s)] \in WhiteSpace THEN TrimEnd(SubSeq(s, 1, Len(s) - 1)) ELSE s

(* String.prototype.trim *)
trim(s) == TrimEnd(SubSeq(s, SkipWhiteSpace(s, 1), Len(s)))

(* the 'simplified' title *)
simplified(title) == trim(collapseConnectors(stripLeadingArticle(title)))

(* `/blog/${slug}/` *)
BlogUrl(slug) == <<"/", "b", "l", "o", "g", "/">> \o slug \o <<"/">>

---------------------------------------------------------------------------
(* Map<string, string>: the entries in insertion order *)

EmptyMap == <<>>

MapHas(m, k) == \E i \in 1..Len(m) : m[i].key = k

(* Map.prototype.get: undefined (None) when the key is absent *)
MapGet(m, k) ==
  IF MapHas(m, k) THEN Some(m[CHOOSE i \in 1..Len(m) : m[i].key = k].value) ELSE None

(* a set that keeps the value of an existing key *)
MapSet_FirstWriteWins(m, k, v) ==
  IF MapHas(m, k) THEN m ELSE Append(m, [key |-> k, value |-> v])

(* Map.prototype.set: an existing key keeps its position and takes the new value *)
MapSet(m, k, v) ==
  IF MapHas(m, k)
  THEN [i \in 1..Len(m) |-> IF m[i].key = k THEN [key |-> k, value |-> v] ELSE m[i]]
  ELSE Append(m, [key |-> k, value |-> v])

(* Array.from(m.keys()) *)
MapKeys(m) == [i \in 1..Len(m) |-> m[i].key]

---------------------------------------------------------------------------
(* The 'blog' collection: an entry has a slug and the frontmatter data of   *)
(* the schema; concepts, tags, prerequisites, difficulty and mindmapBranch  *)
(* are optional                                                             *)

Post(slug, title, concepts, tags, prerequisites, difficulty, mindmapBranch) ==
  [slug |-> slug,
   data |-> [title |-> title, concepts |-> concepts, tags |-> tags,
             prerequisites |-> prerequisites, difficulty |-> difficulty,
             mindmapBranch |-> mindmapBranch]]

(* bound: the longest concept list of a query *)
MaxConcepts == 2

Components == <<"C", "o", "m", "p", "o", "n", "e", "n", "t", "s">>

Foundations == <<"F", "o", "u", "n", "d", "a", "t", "i", "o", "n", "s">>

Pool ==
  << Post(<<"i", "n", "t", "r", "o">>, <<"I", "n", "t", "r", "o", "d", "u", "c", "t", "i", "o", "n", " ", "t", "o", " ", "O", "r", "d", "e", "r", " ", "B", "o", "o", "k", "s">>,
          Some(<< <<"O", "r", "d", "e", "r", " ", "B", "o", "o", "k">> >>), None, None, None, None),
     Post(<<"a", "d", "v", "-", "o", "b">>, <<"A", "d", "v", "a", "n", "c", "e", "d", " ", "O", "r", "d", "e", "r", " ", "B", "o", "o", "k", " ", "D", "e", "s", "i", "g", "n">>,
          Some(<< <<"O", "r", "d", "e", "r", " ", "B", "o", "o", "k">>, <<"M", "a", "t", "c", "h", "i", "n", "g", " ", "E", "n", "g", "i", "n", "e">> >>), None,
          Some(<< <<"i", "n", "t", "r", "o">> >>), None, None),
     Post(<<"b", "u", "i", "l", "d", "i", "n", "g", "-", "l", "i", "m", "i", "t", "-", "o", "r", "d", "e", "r", "-", "b", "o", "o", "k">>, <<"B", "u", "i", "l", "d", "i", "n", "g", " ", "a", " ", "L", "i", "m", "i", "t", " ", "O", "r", "d", "e", "r", " ", "B", "o", "o", "k">>,
          Some(<< <<"O", "r", "d", "e", "r", " ", "M", "a", "n", "a", "g", "e", "m", "e", "n", "t">>, <<"M", "a", "t", "c", "h", "i", "n", "g", " ", "E", "n", "g", "i", "n", "e">> >>),
          Some(<< <<"r", "u", "s", "t">>, <<"h", "f", "t">>, <<"o", "r", "d", "e", "r", "-", "b", "o", "o", "k">> >>),
          Some(<< <<"h", "f", "t", "-", "f", "o", "u", "n", "d", "a", "t", "i", "o", "n", "s">> >>), Some("intermediate"), Some(Components)),
     Post(<<"o", "r", "d", "e", "r", "-", "b", "o", "o", "k">>, <<"T", "h", "e", " ", "O", "r", "d", "e", "r", " ", "B", "o", "o", "k">>,
          None, Some(<< <<"r", "u", "s", "t">> >>), Some(<< <<"o", "r", "d", "e", "r", "-", "b", "o", "o", "k", "-", "b", "a", "s", "i", "c", "s">> >>), Some("beginner"),
          Some(Components)),
     Post(<<"o", "r", "d", "e", "r", "-", "b", "o", "o", "k", "-", "b", "a", "s", "i", "c", "s">>, <<"o", "r", "d", "e", "r", " ", "b", "o", "o", "k">>,
          Some(<<>>), Some(<< <<"R", "u", "s", "t">>, <<"h", "f", "t">> >>), Some(<< <<"o", "r", "d", "e", "r", "-", "b", "o", "o", "k">> >>), None,
          Some(Components)),
     Post(<<"a", "d", "v", "a", "n", "c", "e", "d", "-", "o", "r", "d", "e", "r", "-", "t", "y", "p", "e", "s">>, <<"A", "d", "v", "a", "n", "c", "e", "d", " ", "O", "r", "d", "e", "r", " ", "T", "y", "p", "e", "s", " ", "a", "n", "d", " ", "E", "v", "e", "n", "t", " ", "S", "o", "u", "r", "c", "i", "n", "g">>,
          Some(<< <<"O", "r", "d", "e", "r", " ", "T", "y", "p", "e", "s">>, <<"E", "v", "e", "n", "t", " ", "S", "o", "u", "r", "c", "i", "n", "g">> >>), Some(<< <<"r", "u", "s", "t">>, <<"h", "f", "t">> >>),
          Some(<< <<"b", "u", "i", "l", "d", "i", "n", "g", "-", "l", "i", "m", "i", "t", "-", "o", "r", "d", "e", "r", "-", "b", "o", "o", "k">>, <<"a", "d", "v", "a", "n", "c", "e", "d", "-", "o", "r", "d", "e", "r", "-", "t", "y", "p", "e", "s">>,
                  <<"l", "o", "c", "k", "-", "f", "r", "e", "e", "-", "q", "u", "e", "u", "e", "s">>, <<"i", "n", "t", "r", "o">>, <<"a", "d", "v", "-", "o", "b">> >>),
          Some("advanced"), Some(Components)),
     Post(<<"l", "o", "c", "k", "-", "f", "r", "e", "e", "-", "q", "u", "e", "u", "e", "s">>, <<"L", "o", "c", "k", " ", " ", "F", "r", "e", "e", " ", "Q", "u", "e", "u", "e", "s">>,
          Some(<< <<"L", "o", "c", "k", "-", "f", "r", "e", "e", " ", "P", "r", "o", "g", "r", "a", "m", "m", "i", "n", "g">> >>), Some(<< <<"r", "u", "s", "t">>, <<"l", "o", "c", "k", "-", "f", "r", "e", "e">> >>),
          Some(<< <<"o", "r", "d", "e", "r", "-", "b", "o", "o", "k">> >>), Some("intermediate"), Some(Foundations)) >>

Reverse(seq) == [i \in 1..Len(seq) |-> seq[Len(seq) + 1 - i]]

(* the entries of seq at the positions of S, in the order of seq *)
Pick(seq, S) ==
  [k \in 1..Cardinality(S) |->
     seq[CHOOSE i \in S : Cardinality({j \in S : j < i}) = k - 1]]

(* the snapshots getCollection('blog') may return: every choice of posts of *)
(* the pool, in the order of the pool or in the reverse order; slugs are    *)
(* unique                                                                   *)
Collections ==
  {Pick(Pool, S) : S \in SUBSET (1..Len(Pool))}
  \cup {Pick(Reverse(Pool), S) : S \in SUBSET (1..Len(Pool))}

UnknownSlug == <<"h", "f", "t", "-", "f", "o", "u", "n", "d", "a", "t", "i", "o", "n", "s">>

PoolSlugs == {Pool[i].slug : i \in 1..Len(Pool)}

PoolTitles == {Pool[i].data.title : i \in 1..Len(Pool)}

(* t with each space character replaced by a hyphen *)
spacesToHyphens(t) == [i \in 1..Len(t) |-> IF t[i] = " " THEN "-" ELSE t[i]]

(* link texts an author may type between the double brackets *)
LinkTexts ==
  PoolSlugs \cup PoolTitles \cup {spacesToHyphens(t) : t \in PoolTitles}
  \cup { <<"T", "o", "t", "a", "l", "l", "y", " ", "U", "n", "k", "n", "o", "w", "n", " ", "T", "i", "t", "l", "e">>, <<"O", "r", "d", "e", "r", " ", "B", "o", "o", "k">>,
         <<"O", "R", "D", "E", "R", " ", "B", "O", "O", "K">>, <<"B", "u", "i", "l", "d", "i", "n", "g", " ", "L", "i", "m", "i", "t", " ", "O", "r", "d", "e", "r", " ", "B", "o", "o", "k">>,
         <<"L", "i", "m", "i", "t", " ", "O", "r", "d", "e", "r", " ", "B", "o", "o", "k">>, <<"o", "r", "d", "e", "r", " ", "\t", " ", "b", "o", "o", "k">> }

QueryConcepts == { <<"O", "r", "d", "e", "r", " ", "B", "o", "o", "k">>, <<"O", "r", "d", "e", "r">>, <<"r", "u", "s", "t">> }

(* the concept lists of a query: every list of at most MaxConcepts concepts *)
ConceptLists ==
  UNION {[1..n -> QueryConcepts] : n \in 0..MaxConcepts}

Slugs == PoolSlugs \cup {UnknownSlug}

---------------------------------------------------------------------------
(* the body of allPosts.forEach with one more key: the slug with its hyphens *)
(* replaced by spaces                                                        *)
registerPost_SlugWords(m, post) ==
  LET title == post.data.title
      slug  == post.slug
      m1 == MapSet(m, title, slug)
      m2 == MapSet(m1, toLowerCase(title), slug)
      m3 == MapSet(m2, slug, slug)
      m4 == MapSet(m3, replaceWhiteSpaceRuns(title), slug)
      m5 == MapSet(m4, toLowerCase(replaceWhiteSpaceRuns(title)), slug)
      m6 == MapSet(m5, [i \in 1..Len(slug) |-> IF slug[i] = "-" THEN " " ELSE slug[i]], slug)
      simple == simplified(title)
  IN IF simple # title
     THEN MapSet(MapSet(m6, simple, slug), toLowerCase(simple), slug)
     ELSE m6

(* the body of allPosts.forEach that leaves a key already in the index alone *)
registerPost_KeepExisting(m, post) ==
  LET title == post.data.title
      slug  == post.slug
      m1 == MapSet_FirstWriteWins(m, title, slug)
      m2 == MapSet_FirstWriteWins(m1, toLowerCase(title), slug)
      m3 == MapSet_FirstWriteWins(m2, slug, slug)
      m4 == MapSet_FirstWriteWins(m3, replaceWhiteSpaceRuns(title), slug)
      m5 == MapSet_FirstWriteWins(m4, toLowerCase(replaceWhiteSpaceRuns(title)), slug)
      simple == simplified(title)
  IN IF simple # title
     THEN MapSet_FirstWriteWins(MapSet_FirstWriteWins(m5, simple, slug),
                                toLowerCase(simple), slug)
     ELSE m5

(* the body of allPosts.forEach with the title stored under the slug key *)
registerPost_TitleAsValue(m, post) ==
  LET title == post.data.title
      slug  == post.slug
      m1 == MapSet(m, title, slug)
      m2 == MapSet(m1, toLowerCase(title), slug)
      m3 == MapSet(m2, slug, title)
      m4 == MapSet(m3, replaceWhiteSpaceRuns(title), slug)
      m5 == MapSet(m4, toLowerCase(replaceWhiteSpaceRuns(title)), slug)
      simple == simplified(title)
  IN IF simple # title
     THEN MapSet(MapSet(m5, simple, slug), toLowerCase(simple), slug)
     ELSE m5

(* the body of allPosts.forEach without the two hyphenated keys *)
registerPost_NoHyphenKeys(m, post) ==
  LET title == post.data.title
      slug  == post.slug
      m1 == MapSet(m, title, slug)
      m2 == MapSet(m1, toLowerCase(title), slug)
      m3 == MapSet(m2, slug, slug)
      simple == simplified(title)
  IN IF simple # title
     THEN MapSet(MapSet(m3, simple, slug), toLowerCase(simple), slug)
     ELSE m3

(* initializeLinkResolver, the body of allPosts.forEach: the keys one post *)
(* registers, in order                                                     *)

registerPost(m, post) ==
  LET title == post.data.title
      slug  == post.slug
      m1 == MapSet(m, title, slug)
      m2 == MapSet(m1, toLowerCase(title), slug)
      m3 == MapSet(m2, slug, slug)
      m4 == MapSet(m3, replaceWhiteSpaceRuns(title), slug)
      m5 == MapSet(m4, toLowerCase(replaceWhiteSpaceRuns(title)), slug)
      simple == simplified(title)
  IN IF simple # title
     THEN MapSet(MapSet(m5, simple, slug), toLowerCase(simple), slug)
     ELSE m5

(* allPosts.forEach(post => ...) over the first n posts *)
RECURSIVE buildIndex(_, _)
buildIndex(posts, n) ==
  IF n = 0 THEN EmptyMap ELSE registerPost(buildIndex(posts, n - 1), posts[n])

(* the cache after an initializeLinkResolver that builds the index on every call *)
initialized_Rebuild(cache, posts) == Some(buildIndex(posts, Len(posts)))

(* the cache after 'await initializeLinkResolver()' *)
initialized(cache, posts) ==
  IF cache # None THEN cache ELSE Some(buildIndex(posts, Len(posts)))

(* 'if (slug)': undefined and the empty string are falsy *)
Truthy(slug) == slug # None /\ slug[1] # <<>>

(* resolveWikiLink that builds a URL from the link text when nothing matches *)
resolve_GuessUrl(index, linkText) ==
  LET hyphenated == replaceWhiteSpaceRuns(linkText)
      s1 == MapGet(index, linkText)
      s2 == MapGet(index, toLowerCase(linkText))
      s3 == MapGet(index, hyphenated)
      s4 == MapGet(index, toLowerCase(hyphenated))
  IN IF Truthy(s1) THEN Some(BlogUrl(s1[1]))
     ELSE IF Truthy(s2) THEN Some(BlogUrl(s2[1]))
     ELSE IF Truthy(s3) THEN Some(BlogUrl(s3[1]))
     ELSE IF Truthy(s4) THEN Some(BlogUrl(s4[1]))
     ELSE Some(BlogUrl(toLowerCase(hyphenated)))

(* resolveWikiLink that tries the lowercased text before the exact text *)
resolve_LowerFirst(index, linkText) ==
  LET hyphenated == replaceWhiteSpaceRuns(linkText)
      s1 == MapGet(index, linkText)
      s2 == MapGet(index, toLowerCase(linkText))
      s3 == MapGet(index, hyphenated)
      s4 == MapGet(index, toLowerCase(hyphenated))
  IN IF Truthy(s2) THEN Some(BlogUrl(s2[1]))
     ELSE IF Truthy(s1) THEN Some(BlogUrl(s1[1]))
     ELSE IF Truthy(s3) THEN Some(BlogUrl(s3[1]))
     ELSE IF Truthy(s4) THEN Some(BlogUrl(s4[1]))
     ELSE None

(* the body of resolveWikiLink after the index is there *)
resolve(index, linkText) ==
  LET hyphenated == replaceWhiteSpaceRuns(linkText)
      s1 == MapGet(index, linkText)
      s2 == MapGet(index, toLowerCase(linkText))
      s3 == MapGet(index, hyphenated)
      s4 == MapGet(index, toLowerCase(hyphenated))
  IN IF Truthy(s1) THEN Some(BlogUrl(s1[1]))
     ELSE IF Truthy(s2) THEN Some(BlogUrl(s2[1]))
     ELSE IF Truthy(s3) THEN Some(BlogUrl(s3[1]))
     ELSE IF Truthy(s4) THEN Some(BlogUrl(s4[1]))
     ELSE None

---------------------------------------------------------------------------
(* findRelatedArticles *)

ConceptWeight == 3

TagWeight == 2

TitleWeight == 1

MaxRelated == 5

(* the match without the toLowerCase calls *)
someIncludes_CaseSensitive(arr, concept) ==
  \E i \in 1..Len(arr) : includes(arr[i], concept)

(* arr.some(x => x.toLowerCase().includes(concept.toLowerCase())) *)
someIncludes(arr, concept) ==
  \E i \in 1..Len(arr) : includes(toLowerCase(arr[i]), toLowerCase(concept))

(* the body of concepts.forEach: what one concept adds to the relevance; *)
(* the title check dropped                                               *)
conceptRelevance_NoTitle(post, concept) ==
  LET postConcepts == OrElse(post.data.concepts, <<>>)
      postTags     == OrElse(post.data.tags, <<>>)
  IN (IF someIncludes(postConcepts, concept) THEN ConceptWeight ELSE 0)
     + (IF someIncludes(postTags, concept) THEN TagWeight ELSE 0)

(* the body of concepts.forEach: what one concept adds to the relevance *)
conceptRelevance(post, concept) ==
  LET postConcepts == OrElse(post.data.concepts, <<>>)
      postTags     == OrElse(post.data.tags, <<>>)
      postTitle    == toLowerCase(post.data.title)
  IN (IF someIncludes(postConcepts, concept) THEN ConceptWeight ELSE 0)
     + (IF someIncludes(postTags, concept) THEN TagWeight ELSE 0)
     + (IF includes(postTitle, toLowerCase(concept)) THEN TitleWeight ELSE 0)

(* concepts.forEach(concept => ...) over the first n concepts *)
RECURSIVE relevanceOf(_, _, _)
relevanceOf(post, concepts, n) ==
  IF n = 0 THEN 0
  ELSE relevanceOf(post, concepts, n - 1) + conceptRelevance(post, concepts[n])

(* the body of allPosts.forEach with the test of the current slug dropped *)
pushRelated_NoExclusion(related, post, concepts, currentSlug) ==
  LET relevance == relevanceOf(post, concepts, Len(concepts))
  IN IF relevance > 0
     THEN Append(related, [slug |-> post.slug, title |-> post.data.title,
                           relevance |-> relevance])
     ELSE related

(* the body of allPosts.forEach with 'relevance >= 0' for 'relevance > 0' *)
pushRelated_KeepZero(related, post, concepts, currentSlug) ==
  LET relevance == relevanceOf(post, concepts, Len(concepts))
  IN IF post.slug = currentSlug THEN related
     ELSE IF relevance >= 0
          THEN Append(related, [slug |-> post.slug, title |-> post.data.title,
                                relevance |-> relevance])
          ELSE related

(* the body of allPosts.forEach: what one post adds to the 'related' array *)
pushRelated(related, post, concepts, currentSlug) ==
  LET relevance == relevanceOf(post, concepts, Len(concepts))
  IN IF post.slug = currentSlug THEN related
     ELSE IF relevance > 0
          THEN Append(related, [slug |-> post.slug, title |-> post.data.title,
                                relevance |-> relevance])
          ELSE related

(* allPosts.forEach(post => ...) over the first n posts: the 'related' array *)
RECURSIVE collectRelated(_, _, _, _)
collectRelated(posts, n, concepts, currentSlug) ==
  IF n = 0 THEN <<>>
  ELSE pushRelated(collectRelated(posts, n - 1, concepts, currentSlug), posts[n],
                   concepts, currentSlug)

(* the insertion with entries of equal relevance put after x *)
insertSorted_BeforeEquals(sorted, x) ==
  LET k == Cardinality({i \in 1..Len(sorted) : x.relevance - sorted[i].relevance < 0})
  IN SubSeq(sorted, 1, k) \o <<x>> \o SubSeq(sorted, k + 1, Len(sorted))

(* x goes after every entry e of the sorted array with compare(e, x) <= 0, *)
(* where compare(a, b) = b.relevance - a.relevance                          *)
insertSorted(sorted, x) ==
  LET k == Cardinality({i \in 1..Len(sorted) : x.relevance - sorted[i].relevance <= 0})
  IN SubSeq(sorted, 1, k) \o <<x>> \o SubSeq(sorted, k + 1, Len(sorted))

(* the sort left out *)
sortByRelevance_Unsorted(arr) == arr

(* Array.prototype.sort((a, b) => b.relevance - a.relevance): a stable sort *)
RECURSIVE sortByRelevance(_)
sortByRelevance(arr) ==
  IF arr = <<>> THEN <<>>
  ELSE insertSorted(sortByRelevance(SubSeq(arr, 1, Len(arr) - 1)), arr[Len(arr)])

(* Array.prototype.slice(0, n) *)
slice(arr, n) == SubSeq(arr, 1, IF Len(arr) < n THEN Len(arr) ELSE n)

(* slice(0, 5) taken before the sort *)
findRelated_SliceFirst(posts, concepts, currentSlug) ==
  sortByRelevance(slice(collectRelated(posts, Len(posts), concepts, currentSlug),
                        MaxRelated))

(* related.sort(...).slice(0, 5) *)
findRelated(posts, concepts, currentSlug) ==
  slice(sortByRelevance(collectRelated(posts, Len(posts), concepts, currentSlug)),
        MaxRelated)

---------------------------------------------------------------------------
(* getLearningPath *)

MaxPath == 3

difficulties == <<"beginner", "intermediate", "advanced">>

(* Array.prototype.indexOf, zero-based, -1 when absent *)
indexOf(arr, v) ==
  IF \E i \in 1..Len(arr) : arr[i] = v
  THEN (CHOOSE i \in 1..Len(arr) : arr[i] = v /\ \A j \in 1..(i - 1) : arr[j] # v) - 1
  ELSE -1

(* allPosts.find(p => p.slug === currentSlug) *)
findPost(posts, currentSlug) ==
  IF \E i \in 1..Len(posts) : posts[i].slug = currentSlug
  THEN Some(posts[CHOOSE i \in 1..Len(posts) :
                    /\ posts[i].slug = currentSlug
                    /\ \A j \in 1..(i - 1) : posts[j].slug # currentSlug])
  ELSE None

(* the filter of 'previous' with the same-branch rule applied only to a *)
(* target that has a mindmapBranch                                      *)
isPrevious_BranchRequired(post, currentPost) ==
  LET currentSlug       == currentPost.slug
      currentDifficulty == currentPost.data.difficulty
      currentBranch     == currentPost.data.mindmapBranch
      currentPrereqs    == OrElse(currentPost.data.prerequisites, <<>>)
      postDiffIndex     == indexOf(difficulties, OrElse(post.data.difficulty, "beginner"))
      currentDiffIndex  == indexOf(difficulties, OrElse(currentDifficulty, "beginner"))
  IN IF post.slug = currentSlug THEN FALSE
     ELSE IF arrayIncludes(currentPrereqs, post.slug) THEN TRUE
     ELSE IF currentBranch # None /\ post.data.mindmapBranch = currentBranch
          THEN postDiffIndex < currentDiffIndex
          ELSE FALSE

(* the filter of 'previous' with the test of the prerequisites dropped *)
isPrevious_NoPrereq(post, currentPost) ==
  LET currentSlug       == currentPost.slug
      currentDifficulty == currentPost.data.difficulty
      currentBranch     == currentPost.data.mindmapBranch
      postDiffIndex     == indexOf(difficulties, OrElse(post.data.difficulty, "beginner"))
      currentDiffIndex  == indexOf(difficulties, OrElse(currentDifficulty, "beginner"))
  IN IF post.slug = currentSlug THEN FALSE
     ELSE IF post.data.mindmapBranch = currentBranch
          THEN postDiffIndex < currentDiffIndex
          ELSE FALSE

(* the filter of 'previous' with the test of the current slug dropped *)
isPrevious_NoSelfCheck(post, currentPost) ==
  LET currentDifficulty == currentPost.data.difficulty
      currentBranch     == currentPost.data.mindmapBranch
      currentPrereqs    == OrElse(currentPost.data.prerequisites, <<>>)
      postDiffIndex     == indexOf(difficulties, OrElse(post.data.difficulty, "beginner"))
      currentDiffIndex  == indexOf(difficulties, OrElse(currentDifficulty, "beginner"))
  IN IF arrayIncludes(currentPrereqs, post.slug) THEN TRUE
     ELSE IF post.data.mindmapBranch = currentBranch
          THEN postDiffIndex < currentDiffIndex
          ELSE FALSE

(* the filter of 'previous' *)
isPrevious(post, currentPost) ==
  LET currentSlug       == currentPost.slug
      currentDifficulty == currentPost.data.difficulty
      currentBranch     == currentPost.data.mindmapBranch
      currentPrereqs    == OrElse(currentPost.data.prerequisites, <<>>)
      postDiffIndex     == indexOf(difficulties, OrElse(post.data.difficulty, "beginner"))
      currentDiffIndex  == indexOf(difficulties, OrElse(currentDifficulty, "beginner"))
  IN IF post.slug = currentSlug THEN FALSE
     ELSE IF arrayIncludes(currentPrereqs, post.slug) THEN TRUE
     ELSE IF post.data.mindmapBranch = currentBranch
          THEN postDiffIndex < currentDiffIndex
          ELSE FALSE

(* the filter of 'next' with the test of the prerequisites dropped *)
isNext_NoPrereq(post, currentPost) ==
  LET currentSlug       == currentPost.slug
      currentDifficulty == currentPost.data.difficulty
      currentBranch     == currentPost.data.mindmapBranch
      postDiffIndex     == indexOf(difficulties, OrElse(post.data.difficulty, "beginner"))
      currentDiffIndex  == indexOf(difficulties, OrElse(currentDifficulty, "beginner"))
  IN IF post.slug = currentSlug THEN FALSE
     ELSE IF post.data.mindmapBranch = currentBranch
          THEN postDiffIndex > currentDiffIndex
          ELSE FALSE

(* the filter of 'next' with the same-branch rule dropped *)
isNext_NoBranch(post, currentPost) ==
  LET currentSlug == currentPost.slug
  IN IF post.slug = currentSlug THEN FALSE
     ELSE arrayIncludes(OrElse(post.data.prerequisites, <<>>), currentSlug)

(* the filter of 'next' with an absent prerequisite list matching every slug *)
isNext_AbsentMatchesAll(post, currentPost) ==
  LET currentSlug       == currentPost.slug
      currentDifficulty == currentPost.data.difficulty
      currentBranch     == currentPost.data.mindmapBranch
      postDiffIndex     == indexOf(difficulties, OrElse(post.data.difficulty, "beginner"))
      currentDiffIndex  == indexOf(difficulties, OrElse(currentDifficulty, "beginner"))
  IN IF post.slug = currentSlug THEN FALSE
     ELSE IF post.data.prerequisites = None THEN TRUE
     ELSE IF arrayIncludes(post.data.prerequisites[1], currentSlug) THEN TRUE
     ELSE IF post.data.mindmapBranch = currentBranch
          THEN postDiffIndex > currentDiffIndex
          ELSE FALSE

(* the filter of 'next' with an absent difficulty read as 'intermediate' *)
isNext_AbsentIntermediate(post, currentPost) ==
  LET currentSlug       == currentPost.slug
      currentDifficulty == currentPost.data.difficulty
      currentBranch     == currentPost.data.mindmapBranch
      postDiffIndex     == indexOf(difficulties, OrElse(post.data.difficulty, "intermediate"))
      currentDiffIndex  == indexOf(difficulties, OrElse(currentDifficulty, "intermediate"))
  IN IF post.slug = currentSlug THEN FALSE
     ELSE IF arrayIncludes(OrElse(post.data.prerequisites, <<>>), currentSlug) THEN TRUE
     ELSE IF post.data.mindmapBranch = currentBranch
          THEN postDiffIndex > currentDiffIndex
          ELSE FALSE

(* the filter of 'next' *)
isNext(post, currentPost) ==
  LET currentSlug       == currentPost.slug
      currentDifficulty == currentPost.data.difficulty
      currentBranch     == currentPost.data.mindmapBranch
      postDiffIndex     == indexOf(difficulties, OrElse(post.data.difficulty, "beginner"))
      currentDiffIndex  == indexOf(difficulties, OrElse(currentDifficulty, "beginner"))
  IN IF post.slug = currentSlug THEN FALSE
     ELSE IF arrayIncludes(OrElse(post.data.prerequisites, <<>>), currentSlug) THEN TRUE
     ELSE IF post.data.mindmapBranch = currentBranch
          THEN postDiffIndex > currentDiffIndex
          ELSE FALSE

(* Array.prototype.filter followed by map(post => ({slug, title})) *)
RECURSIVE filterMap(_, _, _)
filterMap(posts, n, keep) ==
  IF n = 0 THEN <<>>
  ELSE IF keep[n]
       THEN Append(filterMap(posts, n - 1, keep),
                   [slug |-> posts[n].slug, title |-> posts[n].data.title])
       ELSE filterMap(posts, n - 1, keep)

(* getLearningPath without the early return for a target that is not found: *)
(* the filters run against a target that has the slug and no data           *)
learningPath_NoFoundCheck(posts, currentSlug) ==
  LET found       == findPost(posts, currentSlug)
      currentPost == IF found = None
                     THEN Post(currentSlug, <<>>, None, None, None, None, None)
                     ELSE found[1]
  IN [previous |->
        slice(filterMap(posts, Len(posts),
                        [i \in 1..Len(posts) |-> isPrevious(posts[i], currentPost)]),
              MaxPath),
      next |->
        slice(filterMap(posts, Len(posts),
                        [i \in 1..Len(posts) |-> isNext(posts[i], currentPost)]),
              MaxPath)]

(* getLearningPath with the listed prerequisites placed in front of the *)
(* same-branch articles of 'previous'                                   *)
learningPath_PrerequisitesFirst(posts, currentSlug) ==
  LET currentPost == findPost(posts, currentSlug)
      listed == [i \in 1..Len(posts) |->
                   /\ posts[i].slug # currentSlug
                   /\ arrayIncludes(OrElse(currentPost[1].data.prerequisites, <<>>),
                                    posts[i].slug)]
  IN IF currentPost = None THEN [previous |-> <<>>, next |-> <<>>]
     ELSE [previous |->
             slice(filterMap(posts, Len(posts), listed)
                   \o filterMap(posts, Len(posts),
                                [i \in 1..Len(posts) |->
                                   ~ listed[i] /\ isPrevious(posts[i], currentPost[1])]),
                   MaxPath),
           next |->
             slice(filterMap(posts, Len(posts),
                             [i \in 1..Len(posts) |-> isNext(posts[i], currentPost[1])]),
                   MaxPath)]

(* the body of getLearningPath *)
learningPath(posts, currentSlug) ==
  LET currentPost == findPost(posts, currentSlug)
  IN IF currentPost = None THEN [previous |-> <<>>, next |-> <<>>]
     ELSE [previous |->
             slice(filterMap(posts, Len(posts),
                             [i \in 1..Len(posts) |-> isPrevious(posts[i], currentPost[1])]),
                   MaxPath),
           next |->
             slice(filterMap(posts, Len(posts),
                             [i \in 1..Len(posts) |-> isNext(posts[i], currentPost[1])]),
                   MaxPath)]

---------------------------------------------------------------------------
(* The state machine *)

NoCall == [op |-> "none", linkText |-> <<>>, concepts |-> <<>>, currentSlug |-> <<>>]

(* the callers whose calls may be in flight at the same time *)
MaxCallers == 2

Callers == 1..MaxCallers

(* a caller with no call in flight *)
Idle == [pc |-> "idle", linkText |-> <<>>, loaded |-> FALSE]

Init ==
  /\ allPosts \in Collections
  /\ articleSlugs = None
  /\ call = NoCall
  /\ result = None
  /\ pending = [p \in Callers |-> Idle]

initializeLinkResolver ==
  /\ articleSlugs' = initialized(articleSlugs, allPosts)
  /\ result' = articleSlugs'[1]
  /\ call' = [NoCall EXCEPT !.op = "initializeLinkResolver"]
  /\ UNCHANGED <<allPosts, pending>>

resolveWikiLink(linkText) ==
  /\ articleSlugs' = initialized(articleSlugs, allPosts)
  /\ result' = resolve(articleSlugs'[1], linkText)
  /\ call' = [NoCall EXCEPT !.op = "resolveWikiLink", !.linkText = linkText]
  /\ UNCHANGED <<allPosts, pending>>

getAllArticleTitles ==
  /\ articleSlugs' = initialized(articleSlugs, allPosts)
  /\ result' = MapKeys(articleSlugs'[1])
  /\ call' = [NoCall EXCEPT !.op = "getAllArticleTitles"]
  /\ UNCHANGED <<allPosts, pending>>

(* findRelatedArticles that discards the resolver index *)
findRelatedArticles_ClearsCache(concepts, currentSlug) ==
  /\ result' = findRelated(allPosts, concepts, currentSlug)
  /\ call' = [NoCall EXCEPT !.op = "findRelatedArticles", !.concepts = concepts,
                            !.currentSlug = currentSlug]
  /\ articleSlugs' = None
  /\ UNCHANGED <<allPosts, pending>>

findRelatedArticles(concepts, currentSlug) ==
  /\ result' = findRelated(allPosts, concepts, currentSlug)
  /\ call' = [NoCall EXCEPT !.op = "findRelatedArticles", !.concepts = concepts,
                            !.currentSlug = currentSlug]
  /\ UNCHANGED <<allPosts, articleSlugs, pending>>

getLearningPath(currentSlug) ==
  /\ result' = learningPath(allPosts, currentSlug)
  /\ call' = [NoCall EXCEPT !.op = "getLearningPath", !.currentSlug = currentSlug]
  /\ UNCHANGED <<allPosts, articleSlugs, pending>>

Next ==
  \/ initializeLinkResolver
  \/ \E linkText \in { <<"o", "r", "d", "e", "r", " ", "b", "o", "o", "k">>, <<"o", "r", "d", "e", "r", "-", "b", "o", "o", "k">>, <<"L", "o", "c", "k", "-", "-", "F", "r", "e", "e", "-", "Q", "u", "e", "u", "e", "s">>,
                        <<"t", "h", "e", " ", "o", "r", "d", "e", "r", " ", "b", "o", "o", "k">>, <<"T", "o", "t", "a", "l", "l", "y", " ", "U", "n", "k", "n", "o", "w", "n", " ", "T", "i", "t", "l", "e">> } :
       resolveWikiLink(linkText)
  \/ getAllArticleTitles
  \/ \E concepts \in {<< <<"O", "r", "d", "e", "r", " ", "B", "o", "o", "k">> >>, << <<"r", "u", "s", "t">>, <<"O", "r", "d", "e", "r">> >>} :
       \E currentSlug \in { <<"i", "n", "t", "r", "o">>, UnknownSlug } :
         findRelatedArticles(concepts, currentSlug)
  \/ \E currentSlug \in { <<"a", "d", "v", "-", "o", "b">>, <<"o", "r", "d", "e", "r", "-", "b", "o", "o", "k">>, UnknownSlug } :
       getLearningPath(currentSlug)

Spec == Init /\ [][Next]_vars

(* the resolver applied once to each link text, on a cold or a warm cache *)
NextResolver ==
  \/ call.op = "none" /\ initializeLinkResolver
  \/ /\ call.op \in {"none", "initializeLinkResolver"}
     /\ \E linkText \in LinkTexts : resolveWikiLink(linkText)

SpecResolver == Init /\ [][NextResolver]_vars

(* the ranker applied once to each query *)
NextRanker ==
  /\ call.op = "none"
  /\ \E concepts \in ConceptLists : \E currentSlug \in Slugs :
       findRelatedArticles(concepts, currentSlug)

SpecRanker == Init /\ [][NextRanker]_vars

(* the path builder applied once to each target *)
NextPath ==
  /\ call.op = "none"
  /\ \E currentSlug \in Slugs : getLearningPath(currentSlug)

SpecPath == Init /\ [][NextPath]_vars

---------------------------------------------------------------------------
(* Index construction over titles made of articles, connector words and *)
(* other words                                                          *)

(* bound: the longest title, in words *)
MaxWords == 4

TitleWords == { <<"T", "h", "e">>, <<"a", "n", "d">>, <<"O", "r">>, <<"R", "u", "s", "t">> }

(* the words of ws separated by single spaces *)
RECURSIVE joinWords(_)
joinWords(ws) ==
  IF Len(ws) = 0 THEN <<>>
  ELSE IF Len(ws) = 1 THEN ws[1]
  ELSE ws[1] \o <<" ">> \o joinWords(Tail(ws))

WordTitles ==
  {joinWords(ws) : ws \in UNION {[1..n -> TitleWords] : n \in 1..MaxWords}}

(* a collection of one article with such a title *)
InitTitles ==
  /\ allPosts \in {<<Post(<<"p", "o", "s", "t">>, t, None, None, None, None, None)>> : t \in WordTitles}
  /\ articleSlugs = None
  /\ call = NoCall
  /\ result = None
  /\ pending = [p \in Callers |-> Idle]

NextTitles == call.op = "none" /\ initializeLinkResolver

SpecTitles == InitTitles /\ [][NextTitles]_vars

---------------------------------------------------------------------------
(* The path builder over articles most of which have no mindmapBranch *)

BranchlessPool ==
  << Post(<<"n", "o", "t", "e", "s">>, <<"N", "o", "t", "e", "s">>, None, None, None, None, None),
     Post(<<"g", "l", "o", "s", "s", "a", "r", "y">>, <<"G", "l", "o", "s", "s", "a", "r", "y">>, None, None, None, Some("beginner"), None),
     Post(<<"t", "u", "n", "i", "n", "g">>, <<"T", "u", "n", "i", "n", "g">>, None, None, None, Some("intermediate"), None),
     Post(<<"k", "e", "r", "n", "e", "l", "-", "b", "y", "p", "a", "s", "s">>, <<"K", "e", "r", "n", "e", "l", " ", "B", "y", "p", "a", "s", "s">>, None, None, None, Some("advanced"), None),
     Post(<<"n", "u", "m", "a">>, <<"N", "U", "M", "A", " ", "A", "l", "l", "o", "c", "a", "t", "o", "r", "s">>, None, None, Some(<< <<"g", "l", "o", "s", "s", "a", "r", "y">> >>),
          Some("advanced"), Some(Foundations)),
     Post(<<"c", "a", "c", "h", "e", "-", "l", "i", "n", "e", "s">>, <<"C", "a", "c", "h", "e", " ", "L", "i", "n", "e", "s">>, None, None, None, Some("beginner"),
          Some(Foundations)) >>

BranchlessCollections ==
  {Pick(BranchlessPool, S) : S \in SUBSET (1..Len(BranchlessPool))}
  \cup {Pick(Reverse(BranchlessPool), S) : S \in SUBSET (1..Len(BranchlessPool))}

BranchlessSlugs == {BranchlessPool[i].slug : i \in 1..Len(BranchlessPool)}

InitBranchless ==
  /\ allPosts \in BranchlessCollections
  /\ articleSlugs = None
  /\ call = NoCall
  /\ result = None
  /\ pending = [p \in Callers |-> Idle]

NextBranchless ==
  /\ call.op = "none"
  /\ \E currentSlug \in BranchlessSlugs : getLearningPath(currentSlug)

SpecBranchless == InitBranchless /\ [][NextBranchless]_vars

---------------------------------------------------------------------------
(* The content directory changes while the module stays loaded *)

(* the snapshots of a growing content directory: the first n posts of the pool *)
Snapshots == {SubSeq(Pool, 1, n) : n \in 0..Len(Pool)}

(* link texts resolved before and after a change *)
ProbeTexts ==
  { <<"o", "r", "d", "e", "r", " ", "b", "o", "o", "k">>, <<"I", "n", "t", "r", "o", "d", "u", "c", "t", "i", "o", "n", " ", "t", "o", " ", "O", "r", "d", "e", "r", " ", "B", "o", "o", "k", "s">>,
    <<"T", "o", "t", "a", "l", "l", "y", " ", "U", "n", "k", "n", "o", "w", "n", " ", "T", "i", "t", "l", "e">> }

InitSnapshot == Init /\ allPosts \in Snapshots

(* a file of the content directory is added or removed: the next *)
(* getCollection('blog') returns another snapshot; the module-level cache  *)
(* is not touched                                                         *)
collectionChange ==
  /\ allPosts' \in Snapshots \ {allPosts}
  /\ call' = [NoCall EXCEPT !.op = "collectionChange"]
  /\ result' = None
  /\ UNCHANGED <<articleSlugs, pending>>

NextReload ==
  \/ collectionChange
  \/ initializeLinkResolver
  \/ getAllArticleTitles
  \/ \E linkText \in ProbeTexts : resolveWikiLink(linkText)

SpecReload == InitSnapshot /\ [][NextReload]_vars

---------------------------------------------------------------------------
(* Calls of resolveWikiLink in flight at the same time: each call runs to *)
(* its next await before another continuation runs                        *)

(* the cache while getCollection is awaited, with 'new Map()' assigned before *)
(* the await                                                                  *)
cacheWhileLoading_AssignFirst(cache) == Some(EmptyMap)

(* the cache while getCollection is awaited: it is assigned only afterwards *)
cacheWhileLoading(cache) == cache

(* resolveWikiLink up to its await: initializeLinkResolver returns the cache, *)
(* or stops at 'await getCollection'                                          *)
callResolveWikiLink(p, linkText) ==
  /\ pending[p].pc = "idle"
  /\ IF articleSlugs # None
     THEN /\ pending' = [pending EXCEPT ![p] =
                           [pc |-> "awaitInit", linkText |-> linkText, loaded |-> FALSE]]
          /\ UNCHANGED articleSlugs
     ELSE /\ pending' = [pending EXCEPT ![p] =
                           [pc |-> "awaitCollection", linkText |-> linkText, loaded |-> FALSE]]
          /\ articleSlugs' = cacheWhileLoading(articleSlugs)
  /\ UNCHANGED <<allPosts, call, result>>

(* initializeLinkResolver from the return of getCollection to its own return: *)
(* the assignment of the new Map and the forEach run with no await between    *)
collectionLoaded(p) ==
  /\ pending[p].pc = "awaitCollection"
  /\ articleSlugs' = Some(buildIndex(allPosts, Len(allPosts)))
  /\ pending' = [pending EXCEPT ![p].pc = "awaitInit", ![p].loaded = TRUE]
  /\ UNCHANGED <<allPosts, call, result>>

(* resolveWikiLink after 'await initializeLinkResolver()': the four lookups *)
resumeResolveWikiLink(p) ==
  /\ pending[p].pc = "awaitInit"
  /\ result' = resolve(articleSlugs[1], pending[p].linkText)
  /\ call' = [NoCall EXCEPT !.op = "resolveWikiLink",
                            !.linkText = pending[p].linkText]
  /\ pending' = [pending EXCEPT ![p].pc = "done"]
  /\ UNCHANGED <<allPosts, articleSlugs>>

NextAsync ==
  \/ \E p \in Callers : \E linkText \in ProbeTexts : callResolveWikiLink(p, linkText)
  \/ \E p \in Callers : collectionLoaded(p)
  \/ \E p \in Callers : resumeResolveWikiLink(p)

SpecAsync == InitSnapshot /\ [][NextAsync]_vars

---------------------------------------------------------------------------
(* Vocabulary of the properties *)

Positions == 1..Len(allPosts)

(* the keys a post registers in the index *)
keysOf(post) ==
  LET m == registerPost(EmptyMap, post) IN {m[i].key : i \in 1..Len(m)}

(* the position of the last post of the collection that registers key k *)
lastRegistrant(k) ==
  CHOOSE i \in Positions :
    /\ k \in keysOf(allPosts[i])
    /\ \A j \in Positions : j > i => k \notin keysOf(allPosts[j])

(* no space of t stands next to another whitespace character *)
singleSpaced(t) ==
  \A i \in 1..Len(t) :
    t[i] = " " =>
      /\ (i > 1 => t[i - 1] \notin WhiteSpace)
      /\ (i < Len(t) => t[i + 1] \notin WhiteSpace)

(* s contains c as a substring when letter case is ignored *)
containsCI(s, c) ==
  \E i \in 0..(Len(s) - Len(c)) :
    \A k \in 1..Len(c) : toLowerCaseChar(s[i + k]) = toLowerCaseChar(c[k])

someContainsCI(list, c) ==
  list # None /\ \E i \in 1..Len(list[1]) : containsCI(list[1][i], c)

(* the score of the scoring rule, summed over the positions of the concept list *)
score(post, concepts) ==
  ConceptWeight * Cardinality({n \in 1..Len(concepts) :
                                 someContainsCI(post.data.concepts, concepts[n])})
  + TagWeight * Cardinality({n \in 1..Len(concepts) :
                               someContainsCI(post.data.tags, concepts[n])})
  + TitleWeight * Cardinality({n \in 1..Len(concepts) :
                                 containsCI(post.data.title, concepts[n])})

(* the position in the collection of the post with the given slug *)
positionOf(slug) == CHOOSE i \in Positions : allPosts[i].slug = slug

(* the candidates of the last findRelatedArticles call: positive score, not excluded *)
candidates ==
  {i \in Positions :
     /\ allPosts[i].slug # call.currentSlug
     /\ score(allPosts[i], call.concepts) > 0}

returned == {positionOf(result[k].slug) : k \in 1..Len(result)}

ScenarioPosts == SubSeq(Pool, 1, 2)

inScenario ==
  /\ call.op = "findRelatedArticles"
  /\ allPosts = ScenarioPosts
  /\ call.concepts = << <<"O", "r", "d", "e", "r", " ", "B", "o", "o", "k">> >>
  /\ call.currentSlug = <<"i", "n", "t", "r", "o">>

---------------------------------------------------------------------------
(* C1 as stated: for every article A, resolveWikiLink(A.title) and           *)
(* resolveWikiLink(A.slug) return '/blog/<A.slug>/', whatever the collection *)
C1_AsStated ==
  \A i \in Positions :
    (/\ call.op = "resolveWikiLink"
     /\ call.linkText \in {allPosts[i].data.title, allPosts[i].slug})
    => result = Some(BlogUrl(allPosts[i].slug))

(* C1 amended: resolveWikiLink applied to the title or the slug of an article *)
(* returns the URL of the last article of the collection that registers that  *)
(* text as a key: '/blog/<A.slug>/' unless a later article registers it       *)
C1_LastRegistrantWins ==
  \A i \in Positions :
    (/\ call.op = "resolveWikiLink"
     /\ call.linkText \in {allPosts[i].data.title, allPosts[i].slug})
    => /\ result = Some(BlogUrl(allPosts[lastRegistrant(call.linkText)].slug))
       /\ (\A j \in Positions : j > i => call.linkText \notin keysOf(allPosts[j]))
          => result = Some(BlogUrl(allPosts[i].slug))

(* C1 witness: a title resolved to its own article although an earlier *)
(* article registers the same key                                      *)
C1_Witness ==
  /\ call.op = "resolveWikiLink"
  /\ \E i, j \in Positions :
       /\ i < j
       /\ call.linkText = allPosts[j].data.title
       /\ call.linkText \in keysOf(allPosts[i])
       /\ result = Some(BlogUrl(allPosts[j].slug))

(* C2 as stated: for every article A, resolveWikiLink applied to A.title with *)
(* its spaces replaced by hyphens returns '/blog/<A.slug>/', for every title  *)
C2_AsStated ==
  \A i \in Positions :
    (/\ call.op = "resolveWikiLink"
     /\ call.linkText = spacesToHyphens(allPosts[i].data.title))
    => result = Some(BlogUrl(allPosts[i].slug))

(* C2 amended: the same, for a title in which no space stands next to another *)
(* whitespace character, when no other article registers the hyphenated text, *)
(* its lowercased form or its whitespace-to-hyphen form                       *)
C2_SingleSpaced ==
  \A i \in Positions :
    (/\ call.op = "resolveWikiLink"
     /\ call.linkText = spacesToHyphens(allPosts[i].data.title)
     /\ singleSpaced(allPosts[i].data.title)
     /\ \A j \in Positions \ {i} :
          keysOf(allPosts[j])
            \cap {call.linkText, toLowerCase(call.linkText),
                  replaceWhiteSpaceRuns(call.linkText)} = {})
    => result = Some(BlogUrl(allPosts[i].slug))

(* C2 witness: a hyphenated multi-word title resolved to its article among others *)
C2_Witness ==
  /\ call.op = "resolveWikiLink"
  /\ Len(allPosts) >= 3
  /\ \E i \in Positions :
       /\ call.linkText = spacesToHyphens(allPosts[i].data.title)
       /\ call.linkText # allPosts[i].data.title
       /\ singleSpaced(allPosts[i].data.title)
       /\ result = Some(BlogUrl(allPosts[i].slug))

(* C3 as stated: in the two-article scenario, findRelatedArticles(['Order Book'], *)
(* 'intro') returns exactly one entry, for 'adv-ob', with relevance 3             *)
C3_AsStated ==
  inScenario =>
    /\ Len(result) = 1
    /\ result[1].slug = <<"a", "d", "v", "-", "o", "b">>
    /\ result[1].relevance = 3

(* C3 amended: in the scenario the single entry, for 'adv-ob', has relevance 4: *)
(* 3 for the concept 'Order Book' and 1 for the title containing 'order book'   *)
C3_Scenario ==
  inScenario =>
    result = << [slug |-> <<"a", "d", "v", "-", "o", "b">>, title |-> <<"A", "d", "v", "a", "n", "c", "e", "d", " ", "O", "r", "d", "e", "r", " ", "B", "o", "o", "k", " ", "D", "e", "s", "i", "g", "n">>,
                 relevance |-> 4] >>

(* C3 witness: the scenario query has been answered *)
C3_Witness == inScenario /\ Len(result) = 1

(* C4: the relevance of a returned article is the sum over the query concepts of *)
(* 3 for a concept match, 2 for a tag match and 1 for a title match, each a      *)
(* case-insensitive substring match                                              *)
C4_Relevance ==
  call.op = "findRelatedArticles" =>
    \A k \in 1..Len(result) :
      result[k].relevance = score(allPosts[positionOf(result[k].slug)], call.concepts)

(* C4 witness: an entry that scores on concepts, tags and title for one concept *)
(* and on tags alone for another                                                *)
C4_Witness ==
  /\ call.op = "findRelatedArticles"
  /\ Len(call.concepts) = 2
  /\ \E k \in 1..Len(result) : result[k].relevance = 8

(* C5: the output of findRelatedArticles has at most 5 entries and none with the *)
(* excluded slug                                                                 *)
C5_Bounded ==
  call.op = "findRelatedArticles" =>
    /\ Len(result) <= 5
    /\ \A k \in 1..Len(result) : result[k].slug # call.currentSlug

(* C5 witness: more than 5 candidates, and the excluded article would score *)
C5_Witness ==
  /\ call.op = "findRelatedArticles"
  /\ Len(result) = 5
  /\ Cardinality(candidates) > 5
  /\ \E i \in Positions :
       /\ allPosts[i].slug = call.currentSlug
       /\ score(allPosts[i], call.concepts) > 0

(* C6: in the output of findRelatedArticles each relevance is at least the next *)
C6_NonIncreasing ==
  call.op = "findRelatedArticles" =>
    \A k \in 1..(Len(result) - 1) : result[k].relevance >= result[k + 1].relevance

(* C6 witness: the sort moved a later article of the collection in front of an *)
(* earlier one                                                                 *)
C6_Witness ==
  /\ call.op = "findRelatedArticles"
  /\ \E k, l \in 1..Len(result) :
       /\ k < l
       /\ result[k].relevance > result[l].relevance
       /\ positionOf(result[k].slug) > positionOf(result[l].slug)

(* C7: entries of equal relevance keep the order of the collection, and a       *)
(* candidate cut at 5 entries comes after every returned entry of equal score *)
C7_Stable ==
  call.op = "findRelatedArticles" =>
    /\ \A k, l \in 1..Len(result) :
         (k < l /\ result[k].relevance = result[l].relevance)
         => positionOf(result[k].slug) < positionOf(result[l].slug)
    /\ \A i \in candidates \ returned : \A k \in 1..Len(result) :
         result[k].relevance = score(allPosts[i], call.concepts)
         => positionOf(result[k].slug) < i

(* C7 witness: a tie inside the output and a tie across the cut *)
C7_Witness ==
  /\ call.op = "findRelatedArticles"
  /\ \E k \in 1..(Len(result) - 1) : result[k].relevance = result[k + 1].relevance
  /\ \E i \in candidates \ returned :
       score(allPosts[i], call.concepts) = result[Len(result)].relevance

(* C8: a candidate left out scores at most as much as every returned entry, and *)
(* with fewer than 5 entries returned no candidate is left out                  *)
C8_TopScorers ==
  call.op = "findRelatedArticles" =>
    /\ \A i \in candidates \ returned : \A k \in 1..Len(result) :
         score(allPosts[i], call.concepts) <= result[k].relevance
    /\ Len(result) < 5 => candidates \subseteq returned

(* C8 witness: a candidate left out that stands in the collection before a *)
(* returned article of higher score                                          *)
C8_Witness ==
  /\ call.op = "findRelatedArticles"
  /\ \E i \in candidates \ returned : \E k \in 1..Len(result) :
       /\ score(allPosts[i], call.concepts) < result[k].relevance
       /\ i < positionOf(result[k].slug)

(* no article other than the excluded one matches a query concept *)
noMatch ==
  \A i \in Positions : \A n \in 1..Len(call.concepts) :
    allPosts[i].slug # call.currentSlug
    => /\ ~ someContainsCI(allPosts[i].data.concepts, call.concepts[n])
       /\ ~ someContainsCI(allPosts[i].data.tags, call.concepts[n])
       /\ ~ containsCI(allPosts[i].data.title, call.concepts[n])

(* C9: every returned entry has relevance at least 1, and the output is empty *)
(* when no article other than the excluded one matches                        *)
C9_Positive ==
  call.op = "findRelatedArticles" =>
    /\ \A k \in 1..Len(result) : result[k].relevance >= 1
    /\ noMatch => result = <<>>

(* C9 witness: an empty output although the excluded article matches and other *)
(* articles are there                                                          *)
C9_Witness ==
  /\ call.op = "findRelatedArticles"
  /\ result = <<>>
  /\ Len(call.concepts) >= 1
  /\ \E i, j \in Positions :
       /\ allPosts[i].slug = call.currentSlug
       /\ score(allPosts[i], call.concepts) > 0
       /\ allPosts[j].slug # call.currentSlug

(* C10: neither list of getLearningPath holds the target, and each has at most 3 *)
(* entries                                                                       *)
C10_NoTarget ==
  call.op = "getLearningPath" =>
    /\ Len(result.previous) <= 3
    /\ Len(result.next) <= 3
    /\ \A k \in 1..Len(result.previous) : result.previous[k].slug # call.currentSlug
    /\ \A k \in 1..Len(result.next) : result.next[k].slug # call.currentSlug

(* C10 witness: the target lists itself in its prerequisites and more than 3 *)
(* other articles qualify as previous                                        *)
C10_Witness ==
  /\ call.op = "getLearningPath"
  /\ Len(result.previous) = 3
  /\ \E i \in Positions :
       /\ allPosts[i].slug = call.currentSlug
       /\ arrayIncludes(OrElse(allPosts[i].data.prerequisites, <<>>), call.currentSlug)
       /\ Cardinality({j \in Positions \ {i} :
                         \/ arrayIncludes(allPosts[i].data.prerequisites[1],
                                          allPosts[j].slug)
                         \/ allPosts[j].data.mindmapBranch
                              = allPosts[i].data.mindmapBranch}) > 3

---------------------------------------------------------------------------
(* Vocabulary of the learning path properties *)

(* the difficulty rank: beginner < intermediate < advanced, absent as beginner *)
rank(post) ==
  IF post.data.difficulty = None THEN 0
  ELSE IF post.data.difficulty[1] = "beginner" THEN 0
  ELSE IF post.data.difficulty[1] = "intermediate" THEN 1
  ELSE 2

(* post b lists the slug among its prerequisites *)
listsPrerequisite(b, slug) ==
  b.data.prerequisites # None
  /\ \E k \in 1..Len(b.data.prerequisites[1]) : b.data.prerequisites[1][k] = slug

(* the positions of the target of the last getLearningPath call *)
targets == {a \in Positions : allPosts[a].slug = call.currentSlug}

(* the post at j qualifies as 'next' of the post at a *)
qualifiesNext(j, a) ==
  /\ j # a
  /\ \/ listsPrerequisite(allPosts[j], allPosts[a].slug)
     \/ /\ allPosts[j].data.mindmapBranch = allPosts[a].data.mindmapBranch
        /\ rank(allPosts[j]) > rank(allPosts[a])

(* the post at j qualifies as 'previous' of the post at a *)
qualifiesPrevious(j, a) ==
  /\ j # a
  /\ \/ listsPrerequisite(allPosts[a], allPosts[j].slug)
     \/ /\ allPosts[j].data.mindmapBranch = allPosts[a].data.mindmapBranch
        /\ rank(allPosts[j]) < rank(allPosts[a])

inList(list, slug) == \E k \in 1..Len(list) : list[k].slug = slug

(* fewer than 3 posts that qualify stand before position b in the collection *)
earlyNext(b, a) == Cardinality({j \in 1..(b - 1) : qualifiesNext(j, a)}) < 3

earlyPrevious(b, a) == Cardinality({j \in 1..(b - 1) : qualifiesPrevious(j, a)}) < 3

(* C11 as stated: an article B that lists the target A in its prerequisites is *)
(* in getLearningPath(A.slug).next, whatever else qualifies                    *)
C11_AsStated ==
  call.op = "getLearningPath" =>
    \A a \in targets : \A b \in Positions \ {a} :
      listsPrerequisite(allPosts[b], allPosts[a].slug)
      => inList(result.next, allPosts[b].slug)

(* C11 amended: such an article B is in next when fewer than 3 articles that *)
(* qualify for next stand before B in the collection (next is cut at 3)      *)
C11_DependentInNext ==
  call.op = "getLearningPath" =>
    \A a \in targets : \A b \in Positions \ {a} :
      (listsPrerequisite(allPosts[b], allPosts[a].slug) /\ earlyNext(b, a))
      => inList(result.next, allPosts[b].slug)

(* C11 witness: a dependent of another branch is in next behind other entries *)
C11_Witness ==
  /\ call.op = "getLearningPath"
  /\ \E a \in targets : \E b \in Positions \ {a} :
       /\ listsPrerequisite(allPosts[b], allPosts[a].slug)
       /\ allPosts[b].data.mindmapBranch # allPosts[a].data.mindmapBranch
       /\ Len(result.next) >= 2
       /\ result.next[1].slug # allPosts[b].slug
       /\ inList(result.next, allPosts[b].slug)

(* C12 as stated: an article B of the collection that the target A lists in its *)
(* prerequisites is in getLearningPath(A.slug).previous, whatever else qualifies *)
C12_AsStated ==
  call.op = "getLearningPath" =>
    \A a \in targets : \A b \in Positions \ {a} :
      listsPrerequisite(allPosts[a], allPosts[b].slug)
      => inList(result.previous, allPosts[b].slug)

(* C12 amended: such an article B is in previous when fewer than 3 articles *)
(* that qualify for previous stand before B in the collection               *)
C12_PrerequisiteInPrevious ==
  call.op = "getLearningPath" =>
    \A a \in targets : \A b \in Positions \ {a} :
      (listsPrerequisite(allPosts[a], allPosts[b].slug) /\ earlyPrevious(b, a))
      => inList(result.previous, allPosts[b].slug)

(* C12 witness: a prerequisite of another branch is in previous behind other *)
(* entries                                                                   *)
C12_Witness ==
  /\ call.op = "getLearningPath"
  /\ \E a \in targets : \E b \in Positions \ {a} :
       /\ listsPrerequisite(allPosts[a], allPosts[b].slug)
       /\ allPosts[b].data.mindmapBranch # allPosts[a].data.mindmapBranch
       /\ Len(result.previous) >= 2
       /\ result.previous[1].slug # allPosts[b].slug
       /\ inList(result.previous, allPosts[b].slug)

(* X at x is a beginner and Y at y is advanced, in one branch, with no *)
(* prerequisite link between them                                      *)
beginnerAdvanced(x, y) ==
  /\ allPosts[x].data.mindmapBranch # None
  /\ allPosts[x].data.mindmapBranch = allPosts[y].data.mindmapBranch
  /\ allPosts[x].data.difficulty = Some("beginner")
  /\ allPosts[y].data.difficulty = Some("advanced")
  /\ ~ listsPrerequisite(allPosts[x], allPosts[y].slug)
  /\ ~ listsPrerequisite(allPosts[y], allPosts[x].slug)

(* C13 as stated: for such X and Y, Y is in getLearningPath(X.slug).next and X *)
(* is in getLearningPath(Y.slug).previous                                      *)
C13_AsStated ==
  call.op = "getLearningPath" =>
    \A x, y \in Positions :
      beginnerAdvanced(x, y)
      => /\ x \in targets => inList(result.next, allPosts[y].slug)
         /\ y \in targets => inList(result.previous, allPosts[x].slug)

(* C13 amended: Y is in next of X when fewer than 3 articles that qualify for *)
(* next stand before Y, and X is in previous of Y when fewer than 3 articles  *)
(* that qualify for previous stand before X                                   *)
C13_SameBranch ==
  call.op = "getLearningPath" =>
    \A x, y \in Positions :
      beginnerAdvanced(x, y)
      => /\ (x \in targets /\ earlyNext(y, x)) => inList(result.next, allPosts[y].slug)
         /\ (y \in targets /\ earlyPrevious(x, y))
            => inList(result.previous, allPosts[x].slug)

(* C13 witness: the advanced article is in next of the beginner, with three *)
(* entries in next                                                          *)
C13_Witness ==
  /\ call.op = "getLearningPath"
  /\ Len(result.next) = 3
  /\ \E x \in targets : \E y \in Positions :
       beginnerAdvanced(x, y) /\ inList(result.next, allPosts[y].slug)

(* C14: no article is both in the previous list and in the next list of one *)
(* result of getLearningPath                                                *)
C14_Disjoint ==
  call.op = "getLearningPath" =>
    \A k \in 1..Len(result.previous) :
      ~ inList(result.next, result.previous[k].slug)

(* C15: for a target slug that no article of the collection has, the result is *)
(* {previous: [], next: []}                                                    *)
C15_UnknownTarget ==
  (call.op = "getLearningPath" /\ targets = {})
  => result = [previous |-> <<>>, next |-> <<>>]

(* C15 witness: the unknown target is listed as a prerequisite in the collection *)
C15_Witness ==
  /\ call.op = "getLearningPath"
  /\ targets = {}
  /\ \E b \in Positions : listsPrerequisite(allPosts[b], call.currentSlug)
  /\ result.next = <<>>

---------------------------------------------------------------------------
(* Vocabulary of the resolver properties *)

(* every key that some post of the collection registers *)
allKeys == UNION {keysOf(allPosts[i]) : i \in Positions}

(* the four forms of a link text, in the order in which they are tried *)
forms(t) ==
  << t, toLowerCase(t), replaceWhiteSpaceRuns(t),
     toLowerCase(replaceWhiteSpaceRuns(t)) >>

(* the forms of t that are keys *)
hits(t) == {n \in 1..4 : forms(t)[n] \in allKeys}

firstHit(t) == CHOOSE n \in hits(t) : \A m \in hits(t) : n <= m

(* the slug the index holds for a key: that of its last registrant *)
slugOfKey(k) == allPosts[lastRegistrant(k)].slug

(* C16: a link text none of whose four forms is a key resolves to null *)
C16_NotFound ==
  (call.op = "resolveWikiLink" /\ hits(call.linkText) = {}) => result = None

(* C16 witness: a text with four different forms is not found in a collection *)
(* of several articles                                                        *)
C16_Witness ==
  /\ call.op = "resolveWikiLink"
  /\ Len(allPosts) >= 2
  /\ Cardinality({forms(call.linkText)[n] : n \in 1..4}) = 4
  /\ result = None

(* C17: resolveWikiLink returns the URL of the first of the four forms, in the *)
(* order exact, lowercased, hyphenated, hyphenated lowercased, that is a key   *)
C17_FirstForm ==
  (call.op = "resolveWikiLink" /\ hits(call.linkText) # {})
  => result = Some(BlogUrl(slugOfKey(forms(call.linkText)[firstHit(call.linkText)])))

(* C17 witness: the exact text is a key and its lowercased form is a key of a *)
(* different article                                                          *)
C17_Witness ==
  /\ call.op = "resolveWikiLink"
  /\ {1, 2} \subseteq hits(call.linkText)
  /\ slugOfKey(call.linkText) # slugOfKey(toLowerCase(call.linkText))
  /\ result = Some(BlogUrl(slugOfKey(call.linkText)))

(* C18: a result of resolveWikiLink other than null is '/blog/<s>/' for the *)
(* slug s of an article of the collection, and every value of the index is  *)
(* such a slug                                                              *)
C18_SlugShape ==
  /\ (call.op = "resolveWikiLink" /\ result # None)
     => \E i \in Positions : result = Some(BlogUrl(allPosts[i].slug))
  /\ articleSlugs # None
     => \A n \in 1..Len(articleSlugs[1]) :
          \E i \in Positions : articleSlugs[1][n].value = allPosts[i].slug

(* C18 witness: a link resolved through a form other than the exact text *)
C18_Witness ==
  /\ call.op = "resolveWikiLink"
  /\ result # None
  /\ call.linkText \notin allKeys
  /\ Len(allPosts) >= 2

---------------------------------------------------------------------------
(* Vocabulary of the cache properties *)

(* the index a single build from the current collection produces *)
freshIndex == buildIndex(allPosts, Len(allPosts))

(* C19: each resolveWikiLink call answers from the index built from the *)
(* collection as it is at that call                                      *)
C19_AsStated ==
  call.op = "resolveWikiLink"
  => /\ articleSlugs = Some(freshIndex)
     /\ result = resolve(freshIndex, call.linkText)

(* C20: with calls in flight at the same time the cache, once assigned, is *)
(* the index of a single build; a call past its await finds the cache      *)
(* assigned, and every answer is the answer of that index                  *)
C20_SafeRace ==
  /\ articleSlugs # None => articleSlugs = Some(freshIndex)
  /\ \A p \in Callers :
       pending[p].pc \in {"awaitInit", "done"} => articleSlugs # None
  /\ call.op = "resolveWikiLink" => result = resolve(freshIndex, call.linkText)

(* C20 witness: every caller passed the null check on an empty cache, each *)
(* built the index, and all the calls have completed with a resolved link  *)
C20_Witness ==
  /\ \A p \in Callers : pending[p].pc = "done" /\ pending[p].loaded
  /\ call.op = "resolveWikiLink"
  /\ result # None
  /\ Len(allPosts) >= 2

---------------------------------------------------------------------------
(* Vocabulary of the documented link forms *)

BuildingSlug == <<"b", "u", "i", "l", "d", "i", "n", "g", "-", "l", "i", "m", "i", "t", "-", "o", "r", "d", "e", "r", "-", "b", "o", "o", "k">>

(* the three link texts the documentation lists for that article *)
DocumentedTexts ==
  { <<"B", "u", "i", "l", "d", "i", "n", "g", " ", "L", "i", "m", "i", "t", " ", "O", "r", "d", "e", "r", " ", "B", "o", "o", "k">>, BuildingSlug, <<"L", "i", "m", "i", "t", " ", "O", "r", "d", "e", "r", " ", "B", "o", "o", "k">> }

(* C21: in a collection with an article of slug 'building-limit-order-book', *)
(* the link texts 'Building Limit Order Book', 'building-limit-order-book'   *)
(* and 'Limit Order Book' all resolve to the same article URL                *)
C21_AsStated ==
  (/\ call.op = "resolveWikiLink"
   /\ call.linkText \in DocumentedTexts
   /\ \E i \in Positions : allPosts[i].slug = BuildingSlug)
  => /\ result # None
     /\ \A t \in DocumentedTexts : resolve(articleSlugs[1], t) = result

---------------------------------------------------------------------------
(* Vocabulary of the properties of incomplete metadata *)

(* some article of the collection has the slug *)
present(slug) == \E i \in Positions : allPosts[i].slug = slug

(* the post with each absent list made empty and each prerequisite that no *)
(* article of the collection has removed                                   *)
completed(post) ==
  [post EXCEPT !.data.concepts = Some(OrElse(@, <<>>)),
               !.data.tags = Some(OrElse(@, <<>>)),
               !.data.prerequisites = Some(SelectSeq(OrElse(@, <<>>), present))]

completedPosts == [i \in Positions |-> completed(allPosts[i])]

(* a post that lacks a list, or names a prerequisite absent from the collection *)
incomplete(post) ==
  \/ post.data.concepts = None
  \/ post.data.tags = None
  \/ post.data.prerequisites = None
  \/ \E k \in 1..Len(OrElse(post.data.prerequisites, <<>>)) :
       ~ present(post.data.prerequisites[1][k])

(* C22: findRelatedArticles and getLearningPath answer on a collection with  *)
(* absent lists and dangling prerequisites as on the collection with the     *)
(* absent lists made empty and the dangling slugs removed, and every slug    *)
(* they return is the slug of an article of the collection                   *)
C22_Tolerant ==
  /\ call.op = "findRelatedArticles" =>
       /\ result = findRelated(completedPosts, call.concepts, call.currentSlug)
       /\ \A k \in 1..Len(result) : present(result[k].slug)
  /\ call.op = "getLearningPath" =>
       /\ result = learningPath(completedPosts, call.currentSlug)
       /\ \A k \in 1..Len(result.previous) : present(result.previous[k].slug)
       /\ \A k \in 1..Len(result.next) : present(result.next[k].slug)

(* C22 witness: a path with entries for a target that has no tags, no         *)
(* difficulty, no mindmapBranch and a prerequisite absent from the collection, *)
(* among articles without concepts                                            *)
C22_Witness ==
  /\ call.op = "getLearningPath"
  /\ \E a \in targets :
       /\ allPosts[a].data.tags = None
       /\ allPosts[a].data.difficulty = None
       /\ allPosts[a].data.mindmapBranch = None
       /\ \E k \in 1..Len(OrElse(allPosts[a].data.prerequisites, <<>>)) :
            ~ present(allPosts[a].data.prerequisites[1][k])
  /\ \E i \in Positions : allPosts[i].data.concepts = None
  /\ Len(result.previous) + Len(result.next) >= 1

---------------------------------------------------------------------------
(* C23: no operation changes the collection, neither the article records nor *)
(* their order, and findRelatedArticles and getLearningPath leave the        *)
(* resolver index as it was                                                  *)
C23_Frame ==
  [][/\ allPosts' = allPosts
     /\ call'.op \in {"findRelatedArticles", "getLearningPath"}
        => articleSlugs' = articleSlugs]_vars

(* C23 witness: findRelatedArticles returned articles in another order than *)
(* that of the collection, with the index built before the call             *)
C23_Witness ==
  /\ call.op = "findRelatedArticles"
  /\ articleSlugs # None
  /\ articleSlugs = Some(freshIndex)
  /\ \E k, l \in 1..Len(result) :
       k < l /\ positionOf(result[k].slug) > positionOf(result[l].slug)

---------------------------------------------------------------------------
(* Vocabulary of the exact path properties *)

(* the entries {slug, title} of the first three posts, in collection order, *)
(* among those at the positions of Q                                        *)
firstThree(Q) ==
  LET chosen == Pick(allPosts, Q)
      n == IF Len(chosen) < 3 THEN Len(chosen) ELSE 3
  IN [k \in 1..n |-> [slug |-> chosen[k].slug, title |-> chosen[k].data.title]]

(* C24: for a target of the collection, previous is exactly the first three, *)
(* in collection order, of the other articles that the target lists as       *)
(* prerequisites or that share its branch with a lower difficulty rank; next *)
(* is exactly the first three of the other articles that list the target or  *)
(* share its branch with a higher rank; a listed prerequisite has no         *)
(* priority over an earlier same-branch article                              *)
C24_FirstThree ==
  call.op = "getLearningPath" =>
    \A a \in targets :
      /\ result.previous = firstThree({j \in Positions : qualifiesPrevious(j, a)})
      /\ result.next = firstThree({j \in Positions : qualifiesNext(j, a)})

(* C24 witness: previous holds an article that is no listed prerequisite, *)
(* while a listed prerequisite that stands later is cut                   *)
C24_Witness ==
  /\ call.op = "getLearningPath"
  /\ Len(result.previous) = 3
  /\ \E a \in targets : \E b, j \in Positions \ {a} :
       /\ j < b
       /\ listsPrerequisite(allPosts[a], allPosts[b].slug)
       /\ ~ inList(result.previous, allPosts[b].slug)
       /\ ~ listsPrerequisite(allPosts[a], allPosts[j].slug)
       /\ inList(result.previous, allPosts[j].slug)

---------------------------------------------------------------------------
(* Vocabulary of the key set properties *)

(* the five keys every article has *)
basicKeys(post) ==
  { post.data.title, toLowerCase(post.data.title), post.slug,
    replaceWhiteSpaceRuns(post.data.title),
    toLowerCase(replaceWhiteSpaceRuns(post.data.title)) }

(* the two keys of a simplified title that differs from the title *)
simplifiedKeys(post) ==
  IF simplified(post.data.title) # post.data.title
  THEN { simplified(post.data.title), toLowerCase(simplified(post.data.title)) }
  ELSE {}

(* word w stands at position i of t between two whitespace characters *)
betweenWhiteSpace(t, i, w) ==
  /\ i > 1
  /\ t[i - 1] \in WhiteSpace
  /\ WordAt(t, i, w)
  /\ i + Len(w) <= Len(t)
  /\ t[i + Len(w)] \in WhiteSpace

(* a title with no leading a/an/the, no connector word between whitespace *)
(* and no whitespace at either end                                        *)
plainTitle(t) ==
  /\ Len(t) > 0 => (t[1] \notin WhiteSpace /\ t[Len(t)] \notin WhiteSpace)
  /\ \A k \in 1..Len(LeadingArticles) :
       ~ (/\ WordAt(t, 1, LeadingArticles[k])
          /\ Len(LeadingArticles[k]) < Len(t)
          /\ t[Len(LeadingArticles[k]) + 1] \in WhiteSpace)
  /\ \A i \in 1..Len(t) : \A k \in 1..Len(ConnectorWords) :
       ~ betweenWhiteSpace(t, i, ConnectorWords[k])

(* the keys of the index *)
indexKeys == {articleSlugs[1][n].key : n \in 1..Len(articleSlugs[1])}

(* C25: the key set of the built index is exactly the union over the articles *)
(* of title, lowercased title, slug, hyphenated title, lowercased hyphenated  *)
(* title and, when the simplified title differs from the title, the           *)
(* simplified title and its lowercased form; an article with a plain title    *)
(* has no key beyond the first five                                           *)
C25_KeySet ==
  articleSlugs # None =>
    /\ indexKeys = UNION {basicKeys(allPosts[i]) \cup simplifiedKeys(allPosts[i]) :
                            i \in Positions}
    /\ \A i \in Positions :
         plainTitle(allPosts[i].data.title)
         => keysOf(allPosts[i]) = basicKeys(allPosts[i])

(* C25 witness: an index built from an article with a plain title and an *)
(* article whose simplified title is a key of no other form              *)
C25_Witness ==
  /\ articleSlugs # None
  /\ \E i, j \in Positions :
       /\ plainTitle(allPosts[i].data.title)
       /\ ~ plainTitle(allPosts[j].data.title)
       /\ simplified(allPosts[j].data.title) \in indexKeys
       /\ simplified(allPosts[j].data.title) \notin basicKeys(allPosts[j])
       /\ simplified(allPosts[j].data.title)
            \notin UNION {basicKeys(allPosts[n]) : n \in Positions}

---------------------------------------------------------------------------
(* the key sets of the articles, by position *)
keySets == [i \in Positions |-> keysOf(allPosts[i])]

(* C26: the index that initializeLinkResolver builds maps a key that several *)
(* articles register to the slug of the last of them in collection order,   *)
(* and holds each key once                                                  *)
C26_LastWriteWins ==
  call.op = "initializeLinkResolver" =>
    LET K == keySets
    IN /\ \A n \in 1..Len(articleSlugs[1]) : \A i \in Positions :
            (/\ articleSlugs[1][n].key \in K[i]
             /\ \A j \in Positions : j > i => articleSlugs[1][n].key \notin K[j])
            => articleSlugs[1][n].value = allPosts[i].slug
       /\ \A n, o \in 1..Len(articleSlugs[1]) :
            articleSlugs[1][n].key = articleSlugs[1][o].key => n = o

(* C26 witness: a key registered by articles of different slugs is in the *)
(* index with the slug of the last of them                                *)
C26_Witness ==
  /\ call.op = "initializeLinkResolver"
  /\ LET K == keySets
     IN \E n \in 1..Len(articleSlugs[1]) : \E i, j \in Positions :
          /\ i < j
          /\ articleSlugs[1][n].key \in K[i]
          /\ articleSlugs[1][n].key \in K[j]
          /\ allPosts[i].slug # articleSlugs[1][n].value
          /\ allPosts[j].slug = articleSlugs[1][n].value

---------------------------------------------------------------------------
(* some connector word stands in t between two whitespace characters *)
hasConnector(t) ==
  \E i \in 1..Len(t) : \E k \in 1..Len(ConnectorWords) :
    betweenWhiteSpace(t, i, ConnectorWords[k])

(* C27: a key that an article has beyond its five basic keys, that is its *)
(* simplified title or the lowercased form of it, contains no connector   *)
(* word for/in/with/using/and/or between whitespace, also when two        *)
(* connector words stand next to each other in the title                  *)
C27_AsStated ==
  call.op = "initializeLinkResolver" =>
    \A i \in Positions : \A k \in keysOf(allPosts[i]) \ basicKeys(allPosts[i]) :
      ~ hasConnector(k)

---------------------------------------------------------------------------
(* the positions of the articles without a difficulty *)
noDifficulty == {i \in Positions : allPosts[i].data.difficulty = None}

(* the collection with the difficulty 'beginner' written into the articles *)
(* at the positions of S                                                   *)
withBeginner(S) ==
  [i \in Positions |->
     IF i \in S THEN [allPosts[i] EXCEPT !.data.difficulty = Some("beginner")]
     ELSE allPosts[i]]

(* C28: writing 'beginner' into any articles that have no difficulty, target *)
(* or candidates, leaves the result of getLearningPath unchanged             *)
C28_AbsentIsBeginner ==
  call.op = "getLearningPath" =>
    \A S \in SUBSET noDifficulty :
      learningPath(withBeginner(S), call.currentSlug) = result

(* C28 witness: the target has no difficulty, and an intermediate article of *)
(* its branch that does not list it is in next, before an article that has   *)
(* no difficulty either                                                      *)
C28_Witness ==
  /\ call.op = "getLearningPath"
  /\ \E a \in targets : \E b \in Positions \ {a} :
       /\ allPosts[a].data.difficulty = None
       /\ allPosts[a].data.mindmapBranch # None
       /\ allPosts[b].data.mindmapBranch = allPosts[a].data.mindmapBranch
       /\ allPosts[b].data.difficulty = Some("intermediate")
       /\ ~ listsPrerequisite(allPosts[b], allPosts[a].slug)
       /\ inList(result.next, allPosts[b].slug)
       /\ \E c \in noDifficulty \ {a} : b < c

---------------------------------------------------------------------------
(* C29: once the cache is set it is never unset nor replaced: every later  *)
(* call of initializeLinkResolver, resolveWikiLink and getAllArticleTitles *)
(* answers from that same index, also after the collection has changed     *)
C29_BuiltOnce ==
  [][articleSlugs # None =>
       /\ articleSlugs' = articleSlugs
       /\ call'.op = "initializeLinkResolver" => result' = articleSlugs[1]
       /\ call'.op = "getAllArticleTitles" => result' = MapKeys(articleSlugs[1])
       /\ call'.op = "resolveWikiLink"
          => result' = resolve(articleSlugs[1], call'.linkText)]_vars

(* C29 witness: initializeLinkResolver returned the cached index although a *)
(* build from the collection as it is now would give another index          *)
C29_Witness ==
  /\ call.op = "initializeLinkResolver"
  /\ articleSlugs # None
  /\ articleSlugs # Some(freshIndex)
  /\ result = articleSlugs[1]
  /\ Len(result) > 0

---------------------------------------------------------------------------
(* C30: for a target without mindmapBranch, a candidate without mindmapBranch *)
(* and with a strictly lower (higher) difficulty rank is in previous (next)   *)
(* with no prerequisite link, when fewer than 3 qualifying articles stand     *)
(* before it; a candidate that has a mindmapBranch is in previous only when   *)
(* the target lists it and in next only when it lists the target              *)
C30_BranchlessShare ==
  call.op = "getLearningPath" =>
    \A a \in targets : \A j \in Positions \ {a} :
      allPosts[a].data.mindmapBranch = None =>
        /\ (/\ allPosts[j].data.mindmapBranch = None
            /\ rank(allPosts[j]) < rank(allPosts[a])
            /\ earlyPrevious(j, a))
           => inList(result.previous, allPosts[j].slug)
        /\ (/\ allPosts[j].data.mindmapBranch = None
            /\ rank(allPosts[j]) > rank(allPosts[a])
            /\ earlyNext(j, a))
           => inList(result.next, allPosts[j].slug)
        /\ (/\ allPosts[j].data.mindmapBranch # None
            /\ inList(result.previous, allPosts[j].slug))
           => listsPrerequisite(allPosts[a], allPosts[j].slug)
        /\ (/\ allPosts[j].data.mindmapBranch # None
            /\ inList(result.next, allPosts[j].slug))
           => listsPrerequisite(allPosts[j], allPosts[a].slug)

(* C30 witness: for a target without branch, previous holds an easier and    *)
(* next a harder article without branch, none linked by prerequisites, while *)
(* an easier and a harder article that have a branch are in neither list     *)
C30_Witness ==
  /\ call.op = "getLearningPath"
  /\ \E a \in targets : \E lo, hi, x, y \in Positions \ {a} :
       /\ allPosts[a].data.mindmapBranch = None
       /\ allPosts[a].data.prerequisites = None
       /\ allPosts[lo].data.mindmapBranch = None
       /\ allPosts[lo].data.prerequisites = None
       /\ inList(result.previous, allPosts[lo].slug)
       /\ allPosts[hi].data.mindmapBranch = None
       /\ allPosts[hi].data.prerequisites = None
       /\ inList(result.next, allPosts[hi].slug)
       /\ allPosts[x].data.mindmapBranch # None
       /\ rank(allPosts[x]) < rank(allPosts[a])
       /\ allPosts[y].data.mindmapBranch # None
       /\ rank(allPosts[y]) > rank(allPosts[a])
       /\ \A z \in {x, y} :
            /\ ~ inList(result.previous, allPosts[z].slug)
            /\ ~ inList(result.next, allPosts[z].slug)

====
